---- MODULE Spec2Model ----
(***************************************************************************)
(* LogMemoryStore (services/log-memory-store.js): the in-memory staging    *)
(* buffer of the log server, its size and time flush triggers, the         *)
(* single-flight batch flusher with bounded retry and quarantine, the      *)
(* forceFlush drain loop, retryFailedLogs and clearBuffer.                 *)
(*                                                                         *)
(* JavaScript runs one task at a time: a step of the model is the code a   *)
(* call runs between two suspension points (an await on the storage        *)
(* backend or on a timer).  A continuation that resumes in the same        *)
(* microtask drain as the step that released it is part of that step.      *)
(***************************************************************************)
EXTENDS Integers, Sequences, FiniteSets, TLC

\* ---------------------------------------------------------------- bounds
MaxLogs == 2        \* addLog calls the producers make in one run
BatchSizeCfg == 2   \* LOG_BATCH_SIZE of the run
MaxFlushes == 5     \* batches claimed in one run (caps the claim clock)
MaxFlights == 2     \* processBuffer executions the model lets be suspended at once
MaxTimeouts == 1    \* persistence deadlines that expire in one run
MaxWakes == 1       \* 100 ms sleeps of forceFlush that end in one run
MaxSeqLogs == 12    \* addLog calls of the sequential-producer run
MaxSeqBatch == 6    \* largest LOG_BATCH_SIZE of the sequential-producer run
MaxSuccessLogs == 4 \* addLog calls of the run in which nothing fails
MaxDrainLogs == 12  \* records queued before the forceFlush call of the drain run
MaxDrainBatch == 2  \* largest LOG_BATCH_SIZE of the drain run
MaxScenarioLogs == 3 \* addLog calls of the run with BATCH_SIZE = 2 and maxRetries = 1

\* ------------------------------------------------------ program constants
DefaultMaxRetries == 3   \* this.maxRetries = 3
maxAttempts == 10        \* forceFlush: const maxAttempts = 10
maxWaitCount == 30       \* gracefulShutdown: while (... && waitCount < 30)
maxFlushAttempts == 5    \* gracefulShutdown: const maxFlushAttempts = 5

VARIABLES
    buffer,           \* this.buffer: array of records, head first
    _isProcessing,    \* this._isProcessing
    BATCH_SIZE,       \* this.BATCH_SIZE
    flushTimer,       \* this.flushTimer: TRUE while the interval is armed
    pendingLogs,      \* this.pendingLogs: Map in insertion order, as a sequence
    failedLogs,       \* this.failedLogs: Map in insertion order, as a sequence
    totalProcessed,   \* this.totalProcessed
    totalFailed,      \* this.totalFailed
    lastProcessedAt,  \* this.lastProcessedAt: 0 is null, else the claim clock
    maxRetries,       \* this.maxRetries
    flights,          \* processBuffer executions suspended between claim and exit,
                      \* each with how the SQL of its partition check ended
    force,            \* the forceFlush call in progress: its position and `attempts`
    late,             \* bulk inserts still running after their deadline fired
    db,               \* backend table: record id -> times a committed insert held it
    clock,            \* number of batches claimed so far (wall clock and batchId source)
    nextId,           \* next randomUUID, as a counter
    logsLeft,         \* addLog calls the producers still make
    timeoutsLeft,     \* persistence deadlines that may still expire
    wakesLeft,        \* forceFlush sleeps that may still end
    flushesLeft,      \* batches the run may still claim
    attempts,         \* record id -> failed flush attempts since its retryCount was 0
    shutdown,         \* gracefulShutdown: its position, waitCount and flushAttempts
    propagated        \* callers that got a flush error as an exception from the store

vars == << buffer, _isProcessing, BATCH_SIZE, flushTimer, pendingLogs, failedLogs,
           totalProcessed, totalFailed, lastProcessedAt, maxRetries, flights, force,
           late, db, clock, nextId, logsLeft, timeoutsLeft, wakesLeft, flushesLeft,
           attempts, shutdown, propagated >>

\* ------------------------------------------------------------- helpers
Min(a, b) == IF a < b THEN a ELSE b

Range(s) == { s[i] : i \in 1..Len(s) }

Ids(s) == { s[i].logId : i \in 1..Len(s) }

\* Map.prototype.delete: drop the entry with this key, keep the order of the rest
MapDelete(m, key) ==
    LET Other(e) == e.logId # key IN SelectSeq(m, Other)

\* Map.prototype.set: overwrite in place when the key exists, else append
MapSet(m, entry) ==
    IF entry.logId \in Ids(m)
    THEN [i \in 1..Len(m) |-> IF m[i].logId = entry.logId THEN entry ELSE m[i]]
    ELSE Append(m, entry)

RECURSIVE MapSetAll(_, _)
MapSetAll(m, entries) ==
    IF entries = << >> THEN m
    ELSE MapSetAll(MapSet(m, Head(entries)), Tail(entries))

RECURSIVE MapDeleteAll(_, _)
MapDeleteAll(m, logs) ==
    IF logs = << >> THEN m
    ELSE MapDeleteAll(MapDelete(m, Head(logs).logId), Tail(logs))

\* function f without the keys in ks / with the keys in ks set to v
Without(f, ks) == [k \in DOMAIN f \ ks |-> f[k]]

WithAll(f, ks, v) == [k \in DOMAIN f \cup ks |-> IF k \in ks THEN v ELSE f[k]]

Bump(f, ks) == [k \in DOMAIN f \cup ks |-> IF k \in ks
                                            THEN (IF k \in DOMAIN f THEN f[k] ELSE 0) + 1
                                            ELSE f[k]]

\* ------------------------------------------------------------ the store
\* The whole state as one value, so that a handler is a composition of the
\* functions it calls.
Store ==
    [ buffer |-> buffer, _isProcessing |-> _isProcessing, flushTimer |-> flushTimer,
      pendingLogs |-> pendingLogs, failedLogs |-> failedLogs,
      totalProcessed |-> totalProcessed, totalFailed |-> totalFailed,
      lastProcessedAt |-> lastProcessedAt, flights |-> flights, force |-> force,
      late |-> late, db |-> db, clock |-> clock, nextId |-> nextId,
      logsLeft |-> logsLeft, timeoutsLeft |-> timeoutsLeft, wakesLeft |-> wakesLeft,
      flushesLeft |-> flushesLeft,
      attempts |-> attempts, shutdown |-> shutdown, propagated |-> propagated ]

Becomes(s) ==
    /\ buffer' = s.buffer
    /\ _isProcessing' = s._isProcessing
    /\ flushTimer' = s.flushTimer
    /\ pendingLogs' = s.pendingLogs
    /\ failedLogs' = s.failedLogs
    /\ totalProcessed' = s.totalProcessed
    /\ totalFailed' = s.totalFailed
    /\ lastProcessedAt' = s.lastProcessedAt
    /\ flights' = s.flights
    /\ force' = s.force
    /\ late' = s.late
    /\ db' = s.db
    /\ clock' = s.clock
    /\ nextId' = s.nextId
    /\ logsLeft' = s.logsLeft
    /\ timeoutsLeft' = s.timeoutsLeft
    /\ wakesLeft' = s.wakesLeft
    /\ flushesLeft' = s.flushesLeft
    /\ attempts' = s.attempts
    /\ shutdown' = s.shutdown
    /\ propagated' = s.propagated
    /\ UNCHANGED << BATCH_SIZE, maxRetries >>

\* the bounds of the run, on the state a step leads to
WithinBounds(s) ==
    /\ s.flushesLeft >= 0
    /\ s.timeoutsLeft >= 0
    /\ s.wakesLeft >= 0
    /\ Len(s.flights) <= MaxFlights

\* ------------------------------------------------------------- addLog
\* what a producer may send: the payload fields are opaque here, but a
\* producer can send its own logId and retryCount
RawLogs == { [logId |-> "none", retryCount |-> "none"],
             [logId |-> "forged", retryCount |-> 7] }

\* (variant: the producer's fields are spread after retryCount is set)
logWithIdSpreadLast(raw, uuid) ==
    [ logId |-> uuid,
      retryCount |-> IF raw.logId = "none" THEN 0 ELSE raw.retryCount,
      lastFailureReason |-> "none", finalFailureReason |-> "none", batchId |-> 0 ]

\* addLog's logWithId: the spread of the raw log, then the fields addLog sets
logWithId(raw, uuid) ==
    [ logId |-> uuid, retryCount |-> 0,
      lastFailureReason |-> "none", finalFailureReason |-> "none", batchId |-> 0 ]

\* ------------------------------------------------------ processBuffer
\* (variant: the guard without the single-flight flag)
BusyIgnoresFlag(s) == Len(s.buffer) = 0

\* (variant: the guard without the empty-queue test)
BusyIgnoresEmpty(s) == s._isProcessing

\* the guard of processBuffer: TRUE when the call returns at once
Busy(s) == s._isProcessing \/ Len(s.buffer) = 0

\* (variant: the whole queue is taken as the batch)
SpliceTakenAll(buf, n) == buf

\* Array.prototype.splice(0, n): the removed prefix and what stays
SpliceTaken(buf, n) == SubSeq(buf, 1, Min(n, Len(buf)))

\* (variant: slice instead of splice, the prefix stays in the buffer)
SpliceRestKeepsAll(buf, n) == buf

SpliceRest(buf, n) == SubSeq(buf, Min(n, Len(buf)) + 1, Len(buf))

\* the entries pendingLogs.set stores for a batch: copies tagged with the batchId
PendingEntries(logs, batchId) ==
    [i \in 1..Len(logs) |-> [logs[i] EXCEPT !.batchId = batchId]]

\* (variant: the claim does not stamp lastProcessedAt)
processBufferNoStamp(s, caller) ==
    IF Busy(s) THEN s
    ELSE LET logsToProcess == SpliceTaken(s.buffer, BATCH_SIZE)
             batchId == s.clock + 1
         IN [s EXCEPT
               !._isProcessing = TRUE,
               !.clock = s.clock + 1,
               !.flushesLeft = @ - 1,
               !.buffer = SpliceRest(s.buffer, BATCH_SIZE),
               !.pendingLogs = MapSetAll(@, PendingEntries(logsToProcess, batchId)),
               !.flights = Append(@, [ pc |-> "partition", caller |-> caller,
                                       logsToProcess |-> logsToProcess,
                                       batchId |-> batchId,
                                       partitionSql |-> "none" ])]

\* processBuffer from its call to its first await (the partition check)
processBuffer(s, caller) ==
    IF Busy(s) THEN s
    ELSE LET logsToProcess == SpliceTaken(s.buffer, BATCH_SIZE)
             batchId == s.clock + 1
         IN [s EXCEPT
               !._isProcessing = TRUE,
               !.lastProcessedAt = s.clock + 1,
               !.clock = s.clock + 1,
               !.flushesLeft = @ - 1,
               !.buffer = SpliceRest(s.buffer, BATCH_SIZE),
               !.pendingLogs = MapSetAll(@, PendingEntries(logsToProcess, batchId)),
               !.flights = Append(@, [ pc |-> "partition", caller |-> caller,
                                       logsToProcess |-> logsToProcess,
                                       batchId |-> batchId,
                                       partitionSql |-> "none" ])]

\* (variant: the size trigger with > for >=)
ThresholdExceeded(len) == len > BATCH_SIZE

\* the size trigger of addLog
ThresholdReached(len) == len >= BATCH_SIZE

addLog(s, raw) ==
    LET s1 == [s EXCEPT !.buffer = Append(@, logWithId(raw, s.nextId)),
                        !.nextId = @ + 1,
                        !.logsLeft = @ - 1,
                        !.attempts = WithAll(@, {s.nextId}, 0)]
    IN IF ThresholdReached(Len(s1.buffer)) THEN processBuffer(s1, "addLog") ELSE s1

\* ------------------------------------------------ partition check (await)
\* database.js createMonthlyPartition: a failing SQL statement is caught and
\* logged inside it, so the promise it returns resolves either way
createMonthlyPartition(sqlOutcome) ==
    IF sqlOutcome = "error" THEN "resolved" ELSE "resolved"

\* LogMemoryStore.ensureCurrentMonthPartition: rethrows what the call above throws
ensureCurrentMonthPartition(sqlOutcome) ==
    IF createMonthlyPartition(sqlOutcome) = "rejected" THEN "rejected" ELSE "resolved"

\* ------------------------------------------------------ commit (success)
\* (variant: the counter grows by BATCH_SIZE, not by the size of the batch)
commitCountsBatchSize(s, f) ==
    LET logsToProcess == s.flights[f].logsToProcess
    IN [s EXCEPT !.pendingLogs = MapDeleteAll(@, logsToProcess),
                 !.totalProcessed = @ + BATCH_SIZE,
                 !.attempts = Without(@, Ids(logsToProcess))]

\* (variant: the committed batch is pushed back to the buffer as well)
commitAndRequeue(s, f) ==
    LET logsToProcess == s.flights[f].logsToProcess
    IN [s EXCEPT !.pendingLogs = MapDeleteAll(@, logsToProcess),
                 !.totalProcessed = @ + Len(logsToProcess),
                 !.buffer = @ \o logsToProcess]

\* (variant: the success path leaves the batch in pendingLogs)
commitKeepsPending(s, f) ==
    LET logsToProcess == s.flights[f].logsToProcess
    IN [s EXCEPT !.totalProcessed = @ + Len(logsToProcess),
                 !.attempts = Without(@, Ids(logsToProcess))]

commit(s, f) ==
    LET logsToProcess == s.flights[f].logsToProcess
    IN [s EXCEPT !.pendingLogs = MapDeleteAll(@, logsToProcess),
                 !.totalProcessed = @ + Len(logsToProcess),
                 !.attempts = Without(@, Ids(logsToProcess))]

\* ----------------------------------------------------- rollback (catch)
\* (variants: the retry test off by one, either way)
RetryableInclusive(log) == log.retryCount <= maxRetries

RetryableEarly(log) == log.retryCount + 1 < maxRetries

\* the test of the rollback loop: the record gets another attempt
\* (variant: a failed record is always requeued)
RetryableAlways(log) == TRUE

Retryable(log) == log.retryCount < maxRetries

\* (variant: retryCount grows by two)
RetriedTwice(log, reason) ==
    [log EXCEPT !.retryCount = @ + 2, !.lastFailureReason = reason]

Retried(log, reason) ==
    [log EXCEPT !.retryCount = @ + 1, !.lastFailureReason = reason]

Quarantined(log, reason, batchId) ==
    [log EXCEPT !.finalFailureReason = reason, !.batchId = batchId]

\* (variant: unshift, the retryable records go back to the head)
RequeueAtHead(buf, retryableLogs) == retryableLogs \o buf

\* where the retryable records of a failed batch go back into the buffer
Requeue(buf, retryableLogs) == buf \o retryableLogs

\* (variant: a failed flush also cancels the interval)
rollbackCancelsTimer(s, f, reason) ==
    LET logsToProcess == s.flights[f].logsToProcess
        kept == SelectSeq(logsToProcess, Retryable)
        retryableLogs == [i \in 1..Len(kept) |-> Retried(kept[i], reason)]
    IN [s EXCEPT !.pendingLogs = MapDeleteAll(@, logsToProcess),
                 !.buffer = @ \o retryableLogs,
                 !.flushTimer = FALSE,
                 !.attempts = Bump(@, Ids(logsToProcess))]

\* (variant: totalFailed counts every record of a failed batch)
rollbackCountsBatch(s, f, reason) ==
    LET logsToProcess == s.flights[f].logsToProcess
        batchId == s.flights[f].batchId
        NotRetryable(log) == ~Retryable(log)
        kept == SelectSeq(logsToProcess, Retryable)
        lost == SelectSeq(logsToProcess, NotRetryable)
        retryableLogs == [i \in 1..Len(kept) |-> Retried(kept[i], reason)]
        permanentlyFailedLogs == [i \in 1..Len(lost) |-> Quarantined(lost[i], reason, batchId)]
    IN [s EXCEPT !.pendingLogs = MapDeleteAll(@, logsToProcess),
                 !.failedLogs = MapSetAll(@, permanentlyFailedLogs),
                 !.buffer = IF Len(retryableLogs) > 0 THEN Requeue(@, retryableLogs) ELSE @,
                 !.totalFailed = @ + Len(logsToProcess),
                 !.attempts = Bump(@, Ids(logsToProcess))]

\* (variant: records out of retries are counted but kept nowhere)
rollbackWithoutLedger(s, f, reason) ==
    LET logsToProcess == s.flights[f].logsToProcess
        NotRetryable(log) == ~Retryable(log)
        kept == SelectSeq(logsToProcess, Retryable)
        lost == SelectSeq(logsToProcess, NotRetryable)
        retryableLogs == [i \in 1..Len(kept) |-> Retried(kept[i], reason)]
    IN [s EXCEPT !.pendingLogs = MapDeleteAll(@, logsToProcess),
                 !.buffer = IF Len(retryableLogs) > 0 THEN Requeue(@, retryableLogs) ELSE @,
                 !.totalFailed = @ + Len(lost),
                 !.attempts = Without(Bump(@, Ids(logsToProcess)), Ids(lost))]

rollback(s, f, reason) ==
    LET logsToProcess == s.flights[f].logsToProcess
        batchId == s.flights[f].batchId
        NotRetryable(log) == ~Retryable(log)
        kept == SelectSeq(logsToProcess, Retryable)
        lost == SelectSeq(logsToProcess, NotRetryable)
        retryableLogs == [i \in 1..Len(kept) |-> Retried(kept[i], reason)]
        permanentlyFailedLogs == [i \in 1..Len(lost) |-> Quarantined(lost[i], reason, batchId)]
    IN [s EXCEPT !.pendingLogs = MapDeleteAll(@, logsToProcess),
                 !.failedLogs = MapSetAll(@, permanentlyFailedLogs),
                 !.buffer = IF Len(retryableLogs) > 0 THEN Requeue(@, retryableLogs) ELSE @,
                 !.totalFailed = @ + Len(permanentlyFailedLogs),
                 !.attempts = Bump(@, Ids(logsToProcess))]

\* ------------------------------------------------------------ forceFlush
\* (variant: the loop test without the queue length)
ForceContinuesIgnoresQueue(s) == s.force.attempts < maxAttempts

\* (variant: the loop test without the attempt budget)
ForceContinuesIgnoresBudget(s) == Len(s.buffer) > 0

\* the test of forceFlush's while loop
ForceContinues(s) == Len(s.buffer) > 0 /\ s.force.attempts < maxAttempts

\* forceFlush from the test of its while loop to its next suspension or return
RECURSIVE forceLoop(_)
forceLoop(s) ==
    IF ForceContinues(s)
    THEN LET t == processBuffer(s, "forceFlush")
         IN IF Len(t.flights) > Len(s.flights)
            THEN [t EXCEPT !.force.pc = "await"]         \* suspended in its own flush
            ELSE IF t._isProcessing
                 THEN [t EXCEPT !.force.pc = "sleep"]    \* setTimeout(resolve, 100)
                 ELSE forceLoop([t EXCEPT !.force.attempts = @ + 1])
    ELSE [s EXCEPT !.force = [pc |-> "idle", attempts |-> 0]]

\* forceFlush resuming after the processBuffer it awaited has returned
forceResume(s) ==
    IF s._isProcessing
    THEN [s EXCEPT !.force.pc = "sleep"]
    ELSE forceLoop([s EXCEPT !.force.attempts = @ + 1])

\* ------------------------------------------- processBuffer exit (finally)
RemoveAt(seq, i) == SubSeq(seq, 1, i - 1) \o SubSeq(seq, i + 1, Len(seq))

\* how the promise of a processBuffer that claimed a batch settles: the catch
\* block handles the error of a failed flush and does not rethrow it
processBufferSettles(outcome) ==
    IF outcome = "failed" THEN "resolved" ELSE "resolved"

\* the caller of processBuffer gets its settlement: the setInterval callback
\* catches a rejection, addLog, forceFlush and retryFailedLogs pass it on
received(s, caller, settled) ==
    IF settled = "rejected" /\ caller # "timer"
    THEN [s EXCEPT !.propagated = @ \cup {caller}]
    ELSE s

\* (variant: no finally block, the flag stays set)
exitKeepsFlag(s, f, outcome) ==
    LET caller == s.flights[f].caller
        settled == processBufferSettles(outcome)
        s1 == received([s EXCEPT !.flights = RemoveAt(@, f)], caller, settled)
    IN IF caller # "forceFlush" THEN s1
       ELSE IF settled = "rejected" THEN [s1 EXCEPT !.force = [pc |-> "idle", attempts |-> 0]]
       ELSE forceResume(s1)

\* the finally block, then the caller that awaited this processBuffer resumes
exit(s, f, outcome) ==
    LET caller == s.flights[f].caller
        settled == processBufferSettles(outcome)
        s1 == received([s EXCEPT !._isProcessing = FALSE, !.flights = RemoveAt(@, f)],
                       caller, settled)
    IN IF caller # "forceFlush" THEN s1
       ELSE IF settled = "rejected" THEN [s1 EXCEPT !.force = [pc |-> "idle", attempts |-> 0]]
       ELSE forceResume(s1)

\* ------------------------------------------- how Promise.race can settle
\* batchInsert rejects first: the catch block runs with its error
insertFails(s, f) == exit(rollback(s, f, "insert"), f, "failed")

\* (variant: the deadline's rejection ends the flush without the catch block)
deadlineExpiresUnhandled(s, f) ==
    LET s1 == [s EXCEPT !.late = @ \cup {Ids(s.flights[f].logsToProcess)},
                        !.timeoutsLeft = @ - 1]
    IN exit(s1, f, "failed")

\* the 5 s timer rejects first: the catch block runs with the timeout error,
\* and the batchInsert that lost the race keeps running
deadlineExpires(s, f) ==
    LET s1 == [s EXCEPT !.late = @ \cup {Ids(s.flights[f].logsToProcess)},
                        !.timeoutsLeft = @ - 1]
    IN exit(rollback(s1, f, "timeout"), f, "failed")

\* (variant: the late result is counted as a commit)
lateInsertSettlesCounts(s, ids, committed) ==
    [s EXCEPT !.late = @ \ {ids},
              !.db = IF committed THEN Bump(@, ids) ELSE @,
              !.totalProcessed = IF committed THEN @ + Cardinality(ids) ELSE @]

\* a batchInsert that lost the race settles: no handler of the store is left
\* on it, only the transaction commits or rolls back in the backend
lateInsertSettles(s, ids, committed) ==
    [s EXCEPT !.late = @ \ {ids},
              !.db = IF committed THEN Bump(@, ids) ELSE @]

\* ------------------------------------------------------ retryFailedLogs
\* (variant: retryCount is not reset)
ResetKeepsRetryCount(log) == [log EXCEPT !.finalFailureReason = "none"]

Reset(log) == [log EXCEPT !.retryCount = 0, !.finalFailureReason = "none"]

\* (variant: no early return on an empty map)
retryFailedLogsNoGuard(s) ==
    LET snapshot == s.failedLogs
        moved == [i \in 1..Len(snapshot) |-> Reset(snapshot[i])]
        s1 == [s EXCEPT !.buffer = @ \o moved,
                        !.failedLogs = MapDeleteAll(@, snapshot),
                        !.attempts = WithAll(@, Ids(snapshot), 0)]
    IN processBuffer(s1, "retryFailedLogs")

retryFailedLogs(s) ==
    IF Len(s.failedLogs) = 0 THEN s
    ELSE LET snapshot == s.failedLogs
             moved == [i \in 1..Len(snapshot) |-> Reset(snapshot[i])]
             s1 == [s EXCEPT !.buffer = @ \o moved,
                             !.failedLogs = MapDeleteAll(@, snapshot),
                             !.attempts = WithAll(@, Ids(snapshot), 0)]
         IN processBuffer(s1, "retryFailedLogs")

\* -------------------------------------------------------- getStoredLogs
\* a copy of the buffer, narrowed by the filters, sorted newest first (logIds
\* are issued in creation order; Array.prototype.sort is stable) and paged:
\* `passes` is the set of records the filters and the page let through
getStoredLogs(s, passes) ==
    LET kept == SelectSeq(s.buffer, LAMBDA log : log.logId \in passes)
        Before(j, k) == \/ kept[j].logId > kept[k].logId
                        \/ kept[j].logId = kept[k].logId /\ j < k
    IN [i \in 1..Len(kept) |->
          kept[CHOOSE k \in 1..Len(kept) :
                  Cardinality({j \in 1..Len(kept) : Before(j, k)}) = i - 1]]

\* ---------------------------------------------------------- clearBuffer
\* (variant: clearBuffer empties the permanent-failure map too)
clearBufferClearsAll(s) ==
    [s EXCEPT !.buffer = << >>,
              !.pendingLogs = << >>,
              !.failedLogs = << >>,
              !.flushTimer = FALSE,
              !.attempts = Without(@, Ids(s.buffer) \cup Ids(s.failedLogs))]

\* (variant: clearBuffer leaves the interval armed)
clearBufferKeepsTimer(s) ==
    [s EXCEPT !.buffer = << >>,
              !.pendingLogs = << >>,
              !.attempts = Without(@, Ids(s.buffer))]

clearBuffer(s) ==
    [s EXCEPT !.buffer = << >>,
              !.pendingLogs = << >>,
              !.flushTimer = FALSE,
              !.attempts = Without(@, Ids(s.buffer))]

\* ----------------------------------------------------- gracefulShutdown
\* the statistics are logged, clearBuffer runs, then process.exit(0)
shutdownFinish(s) == [clearBuffer(s) EXCEPT !.shutdown.pc = "exited"]

\* the forced-flush loop from its test: calls forceFlush or leaves the loop
shutdownFlushLoop(s) ==
    IF Len(s.buffer) > 0 /\ s.shutdown.flushAttempts < maxFlushAttempts
    THEN forceLoop([s EXCEPT !.shutdown.pc = "force"])
    ELSE shutdownFinish(s)

\* the forceFlush awaited by the handler has returned
shutdownAfterFlush(s) ==
    LET t == [s EXCEPT !.shutdown.flushAttempts = @ + 1]
    IN IF Len(t.buffer) > 0
       THEN [t EXCEPT !.shutdown.pc = "pause"]       \* setTimeout(resolve, 1000)
       ELSE shutdownFlushLoop(t)

\* the wait loop from its test: sleeps one second or goes on to the flushes
shutdownWaitLoop(s) ==
    IF s._isProcessing /\ s.shutdown.waitCount < maxWaitCount
    THEN [s EXCEPT !.shutdown.pc = "wait"]           \* setTimeout(resolve, 1000)
    ELSE shutdownFlushLoop(s)

\* a step that made forceFlush return resumes the handler awaiting it
resumed(s) ==
    IF s.shutdown.pc = "force" /\ s.force.pc = "idle"
    THEN shutdownAfterFlush(s)
    ELSE s

\* ================================================================ actions
IdleForce == [pc |-> "idle", attempts |-> 0]

\* no signal received yet
Running == [pc |-> "running", waitCount |-> 0, flushAttempts |-> 0]

\* the HTTP server accepts requests
Serving == shutdown.pc = "running"

\* process.exit has been called
Exited == shutdown.pc \in {"exited", "killed"}

\* the state after the constructor
Init ==
    /\ buffer = << >>
    /\ _isProcessing = FALSE
    /\ BATCH_SIZE = BatchSizeCfg
    /\ flushTimer = TRUE
    /\ pendingLogs = << >>
    /\ failedLogs = << >>
    /\ totalProcessed = 0
    /\ totalFailed = 0
    /\ lastProcessedAt = 0
    /\ maxRetries = DefaultMaxRetries
    /\ flights = << >>
    /\ force = IdleForce
    /\ late = {}
    /\ db = << >>
    /\ clock = 0
    /\ nextId = 1
    /\ logsLeft = MaxLogs
    /\ timeoutsLeft = MaxTimeouts
    /\ wakesLeft = MaxWakes
    /\ attempts = << >>
    /\ shutdown = Running
    /\ flushesLeft = MaxFlushes
    /\ propagated = {}

Step(t) ==
    /\ ~Exited
    /\ WithinBounds(resumed(t))
    /\ Becomes(resumed(t))

\* a producer calls addLog
AddLog ==
    /\ Serving
    /\ flushTimer
    /\ logsLeft > 0
    /\ \E raw \in RawLogs : Step(addLog(Store, raw))

\* the setInterval callback of startFlushTimer fires
TimerTick ==
    /\ flushTimer
    /\ Step(processBuffer(Store, "timer"))

\* an operator calls forceFlush
ForceFlush ==
    /\ Serving
    /\ flushTimer
    /\ force.pc = "idle"
    /\ Step(forceLoop(Store))

\* the 100 ms sleep of forceFlush ends
ForceFlushWakes ==
    /\ force.pc = "sleep"
    /\ Step(forceLoop([Store EXCEPT !.force.attempts = @ + 1, !.wakesLeft = @ - 1]))

\* an operator calls retryFailedLogs
RetryFailedLogs ==
    /\ Serving
    /\ flushTimer
    /\ Step(retryFailedLogs(Store))

\* the shutdown handler calls clearBuffer, once, after the HTTP server has
\* closed: no addLog, forceFlush or retryFailedLogs request follows it, and
\* flushTimer is non-null exactly until then
ClearBuffer ==
    /\ flushTimer
    /\ Step(clearBuffer(Store))

\* SIGTERM or SIGINT: the callback of server.close runs once the server has
\* closed, so no request handler is still awaiting the store
ShutdownBegins ==
    /\ Serving
    /\ flushTimer
    /\ force.pc = "idle"
    /\ Step(shutdownWaitLoop(Store))

\* the one-second sleep of the wait loop ends
ShutdownWaitEnds ==
    /\ shutdown.pc = "wait"
    /\ Step(shutdownWaitLoop([Store EXCEPT !.shutdown.waitCount = @ + 1]))

\* the one-second sleep between two forced flushes ends
ShutdownPauseEnds ==
    /\ shutdown.pc = "pause"
    /\ Step(shutdownFlushLoop(Store))

\* the 60 s shutdownTimeout fires first: process.exit(1)
ShutdownTimeout ==
    /\ shutdown.pc \in {"wait", "force", "pause"}
    /\ Step([Store EXCEPT !.shutdown.pc = "killed"])

\* the partition check of a flush settles
PartitionCheck ==
    \E f \in 1..Len(flights) :
        /\ flights[f].pc = "partition"
        /\ \E sqlOutcome \in {"ok", "error"} :
              IF ensureCurrentMonthPartition(sqlOutcome) = "rejected"
              THEN Step(exit(rollback(Store, f, "partition"), f, "failed"))
              ELSE Step([Store EXCEPT !.flights[f].pc = "persist",
                                      !.flights[f].partitionSql = sqlOutcome])

\* batchInsert resolves before the deadline
BulkInsertSucceeds ==
    \E f \in 1..Len(flights) :
        /\ flights[f].pc = "persist"
        /\ LET s1 == [Store EXCEPT !.db = Bump(@, Ids(flights[f].logsToProcess))]
           IN Step(exit(commit(s1, f), f, "committed"))

\* batchInsert rejects before the deadline
BulkInsertFails ==
    \E f \in 1..Len(flights) :
        /\ flights[f].pc = "persist"
        /\ Step(insertFails(Store, f))

\* the 5 s timer of the race rejects first; batchInsert keeps running
DeadlineExpires ==
    \E f \in 1..Len(flights) :
        /\ flights[f].pc = "persist"
        /\ Step(deadlineExpires(Store, f))

\* a batchInsert that lost the race settles: nobody awaits its result
LateInsertSettles ==
    \E ids \in late : \E committed \in BOOLEAN :
        Step(lateInsertSettles(Store, ids, committed))

Next ==
    \/ AddLog
    \/ TimerTick
    \/ ForceFlush
    \/ ForceFlushWakes
    \/ RetryFailedLogs
    \/ ClearBuffer
    \/ PartitionCheck
    \/ BulkInsertSucceeds
    \/ BulkInsertFails
    \/ DeadlineExpires
    \/ LateInsertSettles

Spec == Init /\ [][Next]_vars

\* ------------------------------------------------- restricted environments
\* flushes whose partition check and bulk insert succeed, nothing else fails
NextSuccess ==
    \/ AddLog
    \/ TimerTick
    \/ ForceFlush
    \/ ForceFlushWakes
    \/ PartitionCheck
    \/ BulkInsertSucceeds

InitSuccess ==
    /\ buffer = << >>
    /\ _isProcessing = FALSE
    /\ BATCH_SIZE = BatchSizeCfg
    /\ flushTimer = TRUE
    /\ pendingLogs = << >>
    /\ failedLogs = << >>
    /\ totalProcessed = 0
    /\ totalFailed = 0
    /\ lastProcessedAt = 0
    /\ maxRetries = DefaultMaxRetries
    /\ flights = << >>
    /\ force = IdleForce
    /\ late = {}
    /\ db = << >>
    /\ clock = 0
    /\ nextId = 1
    /\ logsLeft = MaxSuccessLogs
    /\ timeoutsLeft = 0
    /\ wakesLeft = MaxWakes
    /\ attempts = << >>
    /\ shutdown = Running
    /\ flushesLeft = MaxFlushes
    /\ propagated = {}

SpecSuccess == InitSuccess /\ [][NextSuccess]_vars

\* normal operation: every bulk insert settles before its deadline and
\* clearBuffer is not called
NextNormal ==
    \/ AddLog
    \/ TimerTick
    \/ ForceFlush
    \/ ForceFlushWakes
    \/ RetryFailedLogs
    \/ PartitionCheck
    \/ BulkInsertSucceeds
    \/ BulkInsertFails

SpecNormal == Init /\ [][NextNormal]_vars

\* one producer calling addLog sequentially (each call awaited before the
\* next), a backend that always succeeds, and no timer tick
InitThreshold ==
    /\ buffer = << >>
    /\ _isProcessing = FALSE
    /\ BATCH_SIZE \in 1..MaxSeqBatch
    /\ flushTimer = TRUE
    /\ pendingLogs = << >>
    /\ failedLogs = << >>
    /\ totalProcessed = 0
    /\ totalFailed = 0
    /\ lastProcessedAt = 0
    /\ maxRetries = DefaultMaxRetries
    /\ flights = << >>
    /\ force = IdleForce
    /\ late = {}
    /\ db = << >>
    /\ clock = 0
    /\ nextId = 1
    /\ logsLeft = MaxSeqLogs
    /\ timeoutsLeft = 0
    /\ wakesLeft = 0
    /\ attempts = << >>
    /\ shutdown = Running
    /\ flushesLeft = MaxFlushes
    /\ propagated = {}

AddLogSequential ==
    /\ flights = << >>
    /\ AddLog

NextThreshold ==
    \/ AddLogSequential
    \/ PartitionCheck
    \/ BulkInsertSucceeds

SpecThreshold == InitThreshold /\ [][NextThreshold]_vars

\* LOG_BATCH_SIZE = 2 and a store whose maxRetries is 1; bulk inserts fail or
\* succeed, flushes start from the size trigger and from timer ticks
InitScenario ==
    /\ buffer = << >>
    /\ _isProcessing = FALSE
    /\ BATCH_SIZE = 2
    /\ flushTimer = TRUE
    /\ pendingLogs = << >>
    /\ failedLogs = << >>
    /\ totalProcessed = 0
    /\ totalFailed = 0
    /\ lastProcessedAt = 0
    /\ maxRetries = 1
    /\ flights = << >>
    /\ force = IdleForce
    /\ late = {}
    /\ db = << >>
    /\ clock = 0
    /\ nextId = 1
    /\ logsLeft = MaxScenarioLogs
    /\ timeoutsLeft = 0
    /\ wakesLeft = 0
    /\ attempts = << >>
    /\ shutdown = Running
    /\ flushesLeft = MaxFlushes
    /\ propagated = {}

NextScenario ==
    \/ AddLog
    \/ TimerTick
    \/ PartitionCheck
    \/ BulkInsertSucceeds
    \/ BulkInsertFails

SpecScenario == InitScenario /\ [][NextScenario]_vars

\* the same store (LOG_BATCH_SIZE = 2, maxRetries = 1) with an operator who
\* calls retryFailedLogs
NextRetry ==
    \/ AddLog
    \/ TimerTick
    \/ RetryFailedLogs
    \/ PartitionCheck
    \/ BulkInsertSucceeds
    \/ BulkInsertFails

SpecRetry == InitScenario /\ [][NextRetry]_vars

\* one forceFlush call at a time against a backend that always succeeds but
\* may be slow: the call may have to sleep up to maxAttempts times.  The
\* 100 ms timer of a sleep fires, and the backend answers every partition
\* check and bulk insert.
InitForce ==
    /\ buffer = << >>
    /\ _isProcessing = FALSE
    /\ BATCH_SIZE = BatchSizeCfg
    /\ flushTimer = TRUE
    /\ pendingLogs = << >>
    /\ failedLogs = << >>
    /\ totalProcessed = 0
    /\ totalFailed = 0
    /\ lastProcessedAt = 0
    /\ maxRetries = DefaultMaxRetries
    /\ flights = << >>
    /\ force = IdleForce
    /\ late = {}
    /\ db = << >>
    /\ clock = 0
    /\ nextId = 1
    /\ logsLeft = MaxLogs
    /\ timeoutsLeft = 0
    /\ wakesLeft = maxAttempts
    /\ attempts = << >>
    /\ shutdown = Running
    /\ flushesLeft = MaxFlushes
    /\ propagated = {}

\* forceFlush is called while no sleep of an earlier call has ended
ForceFlushFresh ==
    /\ wakesLeft = maxAttempts
    /\ ForceFlush

NextForce ==
    \/ AddLog
    \/ TimerTick
    \/ ForceFlushFresh
    \/ ForceFlushWakes
    \/ PartitionCheck
    \/ BulkInsertSucceeds

SpecForce ==
    /\ InitForce
    /\ [][NextForce]_vars
    /\ WF_vars(ForceFlushWakes)
    /\ WF_vars(PartitionCheck)
    /\ WF_vars(BulkInsertSucceeds)

\* the server is shut down while producers, the timer and a backend that may
\* fail or stall are at work; maxRetries is 1
InitShutdown ==
    /\ buffer = << >>
    /\ _isProcessing = FALSE
    /\ BATCH_SIZE = BatchSizeCfg
    /\ flushTimer = TRUE
    /\ pendingLogs = << >>
    /\ failedLogs = << >>
    /\ totalProcessed = 0
    /\ totalFailed = 0
    /\ lastProcessedAt = 0
    /\ maxRetries = 1
    /\ flights = << >>
    /\ force = IdleForce
    /\ late = {}
    /\ db = << >>
    /\ clock = 0
    /\ nextId = 1
    /\ logsLeft = MaxLogs
    /\ timeoutsLeft = 0
    /\ wakesLeft = maxFlushAttempts * maxAttempts
    /\ attempts = << >>
    /\ shutdown = Running
    /\ flushesLeft = MaxFlushes
    /\ propagated = {}

NextShutdown ==
    \/ AddLog
    \/ TimerTick
    \/ ShutdownBegins
    \/ ShutdownWaitEnds
    \/ ShutdownPauseEnds
    \/ ShutdownTimeout
    \/ ForceFlushWakes
    \/ PartitionCheck
    \/ BulkInsertSucceeds
    \/ BulkInsertFails

SpecShutdown == InitShutdown /\ [][NextShutdown]_vars

\* a backend that is free never to answer: its answers (partition check, bulk
\* insert, late insert) may come or not, while the timers of the process
\* always fire: the 5 s deadline of every bulk insert expires if nothing
\* settles the race before
InitSilent ==
    /\ buffer = << >>
    /\ _isProcessing = FALSE
    /\ BATCH_SIZE = BatchSizeCfg
    /\ flushTimer = TRUE
    /\ pendingLogs = << >>
    /\ failedLogs = << >>
    /\ totalProcessed = 0
    /\ totalFailed = 0
    /\ lastProcessedAt = 0
    /\ maxRetries = DefaultMaxRetries
    /\ flights = << >>
    /\ force = IdleForce
    /\ late = {}
    /\ db = << >>
    /\ clock = 0
    /\ nextId = 1
    /\ logsLeft = MaxLogs
    /\ timeoutsLeft = MaxFlushes
    /\ wakesLeft = 0
    /\ attempts = << >>
    /\ shutdown = Running
    /\ flushesLeft = MaxFlushes
    /\ propagated = {}

NextSilent ==
    \/ AddLog
    \/ TimerTick
    \/ PartitionCheck
    \/ BulkInsertSucceeds
    \/ BulkInsertFails
    \/ DeadlineExpires
    \/ LateInsertSettles

SpecSilent ==
    /\ InitSilent
    /\ [][NextSilent]_vars
    /\ WF_vars(DeadlineExpires)

\* one forceFlush call on an idle store whose queue already holds n records
\* (appended during an earlier flush), against a backend that always succeeds,
\* with no producer and the timer not firing during the call
QueueOf(n) ==
    [i \in 1..n |-> [ logId |-> i, retryCount |-> 0, lastFailureReason |-> "none",
                      finalFailureReason |-> "none", batchId |-> 0 ]]

InitDrain ==
    /\ \E n \in 0..MaxDrainLogs :
          /\ buffer = QueueOf(n)
          /\ nextId = n + 1
          /\ attempts = [id \in 1..n |-> 0]
    /\ BATCH_SIZE \in 1..MaxDrainBatch
    /\ _isProcessing = FALSE
    /\ flushTimer = TRUE
    /\ pendingLogs = << >>
    /\ failedLogs = << >>
    /\ totalProcessed = 0
    /\ totalFailed = 0
    /\ lastProcessedAt = 0
    /\ maxRetries = DefaultMaxRetries
    /\ flights = << >>
    /\ force = IdleForce
    /\ late = {}
    /\ db = << >>
    /\ clock = 0
    /\ logsLeft = 0
    /\ timeoutsLeft = 0
    /\ wakesLeft = 0
    /\ flushesLeft = MaxDrainLogs
    /\ shutdown = Running
    /\ propagated = {}

\* the POST /flush route calls forceFlush, once
ForceFlushOnce ==
    /\ clock = 0
    /\ ForceFlush

NextDrain ==
    \/ ForceFlushOnce
    \/ PartitionCheck
    \/ BulkInsertSucceeds

SpecDrain == InitDrain /\ [][NextDrain]_vars

\* the time trigger at work: the interval keeps firing and the backend settles
\* every call (a partition check returns, a bulk insert resolves, rejects or
\* loses the race against its deadline); maxRetries is 1
InitLive ==
    /\ buffer = << >>
    /\ _isProcessing = FALSE
    /\ BATCH_SIZE = BatchSizeCfg
    /\ flushTimer = TRUE
    /\ pendingLogs = << >>
    /\ failedLogs = << >>
    /\ totalProcessed = 0
    /\ totalFailed = 0
    /\ lastProcessedAt = 0
    /\ maxRetries = 1
    /\ flights = << >>
    /\ force = IdleForce
    /\ late = {}
    /\ db = << >>
    /\ clock = 0
    /\ nextId = 1
    /\ logsLeft = MaxLogs
    /\ timeoutsLeft = MaxFlushes
    /\ wakesLeft = 0
    /\ attempts = << >>
    /\ shutdown = Running
    /\ flushesLeft = MaxFlushes
    /\ propagated = {}

\* the race of a bulk insert settles, one way or another
BulkInsertSettles ==
    \/ BulkInsertSucceeds
    \/ BulkInsertFails
    \/ DeadlineExpires

NextLive ==
    \/ AddLog
    \/ TimerTick
    \/ PartitionCheck
    \/ BulkInsertSettles
    \/ LateInsertSettles

SpecLive ==
    /\ InitLive
    /\ [][NextLive]_vars
    /\ WF_vars(TimerTick)
    /\ WF_vars(PartitionCheck)
    /\ WF_vars(BulkInsertSettles)

\* flushes started by timer ticks only: LOG_BATCH_SIZE is above what the
\* producers send, nobody calls forceFlush or retryFailedLogs, the backend may
\* fail or miss the deadline, and shutdown may call clearBuffer
InitTimer ==
    /\ buffer = << >>
    /\ _isProcessing = FALSE
    /\ BATCH_SIZE = MaxLogs + 1
    /\ flushTimer = TRUE
    /\ pendingLogs = << >>
    /\ failedLogs = << >>
    /\ totalProcessed = 0
    /\ totalFailed = 0
    /\ lastProcessedAt = 0
    /\ maxRetries = DefaultMaxRetries
    /\ flights = << >>
    /\ force = IdleForce
    /\ late = {}
    /\ db = << >>
    /\ clock = 0
    /\ nextId = 1
    /\ logsLeft = MaxLogs
    /\ timeoutsLeft = MaxTimeouts
    /\ wakesLeft = 0
    /\ attempts = << >>
    /\ shutdown = Running
    /\ flushesLeft = MaxFlushes
    /\ propagated = {}

NextTimer ==
    \/ AddLog
    \/ TimerTick
    \/ ClearBuffer
    \/ PartitionCheck
    \/ BulkInsertSucceeds
    \/ BulkInsertFails
    \/ DeadlineExpires
    \/ LateInsertSettles

SpecTimer == InitTimer /\ [][NextTimer]_vars

\* =============================================================== claims
\* the records a flush has claimed and not yet committed or rolled back
RECURSIVE Claimed(_)
Claimed(fs) ==
    IF fs = << >> THEN << >> ELSE Head(fs).logsToProcess \o Claimed(Tail(fs))

\* every record object the store still holds
Held == buffer \o Claimed(flights) \o failedLogs

HeldIds == Ids(Held)

\* the retryCount of the record object with this id
RetryCountOf(id) == (CHOOSE r \in Range(Held) : r.logId = id).retryCount

appended == nextId - 1

\* sanity of the model's own bookkeeping
TypeOK ==
    /\ DOMAIN attempts = HeldIds
    /\ _isProcessing \in BOOLEAN
    /\ flushTimer \in BOOLEAN
    /\ force.pc \in {"idle", "await", "sleep"}
    /\ force.attempts \in 0..maxAttempts
    /\ \A f \in 1..Len(flights) : flights[f].pc \in {"partition", "persist"}
    /\ \/ nextId + logsLeft \in {MaxLogs + 1, MaxSeqLogs + 1, MaxSuccessLogs + 1,
                                  MaxScenarioLogs + 1}
       \/ logsLeft = 0 /\ nextId \in 1..(MaxDrainLogs + 1)
    /\ flushesLeft + clock \in {MaxFlushes, MaxDrainLogs}
    /\ lastProcessedAt = clock
    /\ propagated \subseteq {"addLog", "forceFlush", "retryFailedLogs"}
    /\ shutdown.pc \in {"running", "wait", "force", "pause", "exited", "killed"}
    /\ shutdown.waitCount \in 0..maxWaitCount
    /\ shutdown.flushAttempts \in 0..maxFlushAttempts

\* a failed flush attempt has just targeted this record
FailedAttemptOn(id) ==
    /\ id \in DOMAIN attempts
    /\ id \in DOMAIN attempts'
    /\ attempts'[id] = attempts[id] + 1

\* a sequence of records as (logId, retryCount) pairs
Proj(logs) == [i \in 1..Len(logs) |-> << logs[i].logId, logs[i].retryCount >>]

\* the number of the three places (buffer, pendingLogs, failedLogs) holding this id
Places(id) ==
    (IF id \in Ids(buffer) THEN 1 ELSE 0)
    + (IF id \in Ids(pendingLogs) THEN 1 ELSE 0)
    + (IF id \in Ids(failedLogs) THEN 1 ELSE 0)

\* C1: single-flight: in every reachable state, whatever the interleaving of
\* size triggers, timer ticks, forceFlush and retryFailedLogs calls, at most
\* one processBuffer execution is between its claim and its exit.
C1_SingleFlight == Len(flights) <= 1

\* C1 witness: forceFlush called processBuffer while another caller's flush was
\* active, was turned away and went to sleep.
C1_Witness ==
    /\ force.pc = "sleep"
    /\ Len(flights) = 1
    /\ flights[1].caller # "forceFlush"

\* C2: every record id is in at most one of buffer, pendingLogs and failedLogs,
\* and at most once in the buffer; pendingLogs holds ids only while a flush is
\* active; an id in none of the three has been persisted or was dropped by
\* clearBuffer.
C2_OnePlace ==
    /\ Cardinality(Ids(buffer)) = Len(buffer)
    /\ \A id \in 1..appended : Places(id) <= 1
    /\ \A id \in 1..appended : Places(id) = 0 => (id \in DOMAIN db \/ ~flushTimer)
    /\ Len(pendingLogs) > 0 => _isProcessing

\* C2 witness: one record quarantined while another is in flight.
C2_Witness ==
    /\ Len(failedLogs) > 0
    /\ Len(pendingLogs) > 0
    /\ Ids(failedLogs) \cap Ids(pendingLogs) = {}

\* C3: conservation on a pure success path (SpecSuccess): whenever no flush is
\* between claim and commit, the queue length is appended - committed -
\* quarantined; while one is, the claimed batch is the only difference.
C3_Conservation ==
    /\ Len(buffer) + Len(Claimed(flights)) = appended - totalProcessed - totalFailed
    /\ flights = << >> => Len(buffer) = appended - totalProcessed - totalFailed

\* C3 witness: a batch smaller than the queue was committed and records remain.
C3_Witness ==
    /\ flights = << >>
    /\ totalProcessed > 0
    /\ Len(buffer) > 0

\* C4: under normal operation (SpecNormal: no deadline expiry, no clearBuffer)
\* no record is in more than one successful bulk insert, and a record of a
\* committed batch is never held for a later batch.
C4_NoDuplicateInsert ==
    \A id \in DOMAIN db : db[id] <= 1 /\ id \notin HeldIds

\* C4 witness: one record is committed while a later batch, holding a record
\* that has already failed once, is in flight.
C4_Witness ==
    /\ DOMAIN db # {}
    /\ Len(flights) = 1
    /\ \E r \in Range(Claimed(flights)) : r.retryCount > 0

\* C5 as stated: every failed attempt, the quarantining one included, adds
\* exactly 1 to the record's retryCount, and nothing else changes it but the
\* reset of retryFailedLogs.
C5_Original ==
    [][ \A id \in HeldIds \cap HeldIds' :
          /\ FailedAttemptOn(id) => RetryCountOf(id)' = RetryCountOf(id) + 1
          /\ RetryCountOf(id)' # RetryCountOf(id) =>
                \/ FailedAttemptOn(id)
                \/ id \in Ids(failedLogs) /\ RetryCountOf(id)' = 0 ]_vars

\* C5 amended: a failed attempt adds exactly 1 to retryCount when it finds
\* retryCount < maxRetries; the failed attempt that finds retryCount =
\* maxRetries quarantines the record with retryCount unchanged; nothing else
\* changes retryCount but the reset of retryFailedLogs.
C5_RetryCountStep ==
    [][ \A id \in HeldIds \cap HeldIds' :
          /\ FailedAttemptOn(id) =>
                IF RetryCountOf(id) < maxRetries
                THEN RetryCountOf(id)' = RetryCountOf(id) + 1
                ELSE RetryCountOf(id)' = RetryCountOf(id) /\ id \in Ids(failedLogs')
          /\ RetryCountOf(id)' # RetryCountOf(id) =>
                \/ FailedAttemptOn(id)
                \/ id \in Ids(failedLogs) /\ RetryCountOf(id)' = 0 ]_vars

\* C5 witness: a record was quarantined by its (maxRetries + 1)-th failed
\* attempt and still carries retryCount = maxRetries.
C5_Witness ==
    \E i \in 1..Len(failedLogs) :
        /\ failedLogs[i].retryCount = maxRetries
        /\ attempts[failedLogs[i].logId] = maxRetries + 1

\* C6 as stated: a held record is in failedLogs exactly when its retryCount
\* has reached maxRetries.
C6_Original ==
    \A r \in Range(Held) :
        r.retryCount >= maxRetries <=> r.logId \in Ids(failedLogs)

\* C6 amended: a record enters failedLogs only in a failed attempt that finds
\* its retryCount = maxRetries, and every failed attempt that finds retryCount
\* at maxRetries moves it there; reaching maxRetries does not by itself move
\* the record, it stays queued for one more attempt.
C6_QuarantineStep ==
    [][ \A id \in HeldIds :
          LET moved == id \notin Ids(failedLogs) /\ id \in Ids(failedLogs')
          IN /\ moved => FailedAttemptOn(id) /\ RetryCountOf(id) = maxRetries
             /\ FailedAttemptOn(id) /\ RetryCountOf(id) >= maxRetries => moved ]_vars

\* C6 witness: a record whose retryCount has reached maxRetries is back in the
\* queue, not in failedLogs.
C6_Witness ==
    \E i \in 1..Len(buffer) : buffer[i].retryCount = maxRetries

\* C7: every record in failedLogs has retryCount >= maxRetries.
C7_FailedAtMaxRetries ==
    \A i \in 1..Len(failedLogs) : failedLogs[i].retryCount >= maxRetries

\* C7 witness: a quarantine has happened.
C7_Witness == Len(failedLogs) > 0 /\ totalFailed > 0

\* C8 as stated: after maxRetries (3) failed attempts that target it, a record
\* is in failedLogs.
C8_Original ==
    \A id \in DOMAIN attempts :
        attempts[id] >= maxRetries => id \in Ids(failedLogs)

\* C8 amended: a record is in failedLogs after exactly maxRetries + 1 (4)
\* failed attempts that target it, and never before.
C8_QuarantineAfterMaxRetriesPlusOne ==
    \A id \in DOMAIN attempts :
        /\ attempts[id] <= maxRetries + 1
        /\ id \in Ids(failedLogs) <=> attempts[id] = maxRetries + 1

\* C8 witness: the single record ever appended is quarantined, maxRetries = 3.
C8_Witness ==
    /\ appended = 1
    /\ maxRetries = 3
    /\ Ids(failedLogs) = {1}
    /\ db = << >>

\* C9: a retryFailedLogs call that finds failedLogs non-empty empties it,
\* appends its records in map order to the tail of the queue with retryCount
\* 0, and then makes one flush attempt: a no-op when a flush is active, else
\* one claim of the head of that queue.
C9_RetryAll ==
    [][ (RetryFailedLogs /\ Len(failedLogs) > 0) =>
          LET moved == [i \in 1..Len(failedLogs) |-> << failedLogs[i].logId, 0 >>]
              queue == Proj(buffer) \o moved
              n == Min(BATCH_SIZE, Len(queue))
          IN /\ failedLogs' = << >>
             /\ IF _isProcessing
                THEN /\ Proj(buffer') = queue
                     /\ flights' = flights
                     /\ clock' = clock
                ELSE /\ Len(flights') = Len(flights) + 1
                     /\ Proj(flights'[Len(flights')].logsToProcess) = SubSeq(queue, 1, n)
                     /\ Proj(buffer') = SubSeq(queue, n + 1, Len(queue))
                     /\ clock' = clock + 1 ]_vars

\* C9 witness: a record that carries the batchId of its quarantine is held
\* outside failedLogs with retryCount 0.
C9_Witness ==
    \E r \in Range(buffer \o Claimed(flights)) :
        r.batchId # 0 /\ r.retryCount = 0

\* C10: threshold trigger (SpecThreshold): between sequential addLog calls the
\* queue holds appended mod BATCH_SIZE records and totalProcessed is the rest;
\* after exactly BATCH_SIZE calls the queue is empty and totalProcessed =
\* BATCH_SIZE, with no timer tick.
C10_ThresholdTrigger ==
    flights = << >> =>
        /\ Len(buffer) = appended % BATCH_SIZE
        /\ totalProcessed = appended - (appended % BATCH_SIZE)
        /\ appended = BATCH_SIZE => buffer = << >> /\ totalProcessed = BATCH_SIZE

\* C10 witness: N = BATCH_SIZE > 1 calls have returned and all N records are
\* committed.
C10_Witness ==
    /\ BATCH_SIZE > 1
    /\ appended = BATCH_SIZE
    /\ flights = << >>
    /\ buffer = << >>
    /\ totalProcessed = BATCH_SIZE

\* C11: scenario BATCH_SIZE = 2, maxRetries = 1 (SpecScenario): the first failed
\* attempt on a record puts it back in the queue with retryCount 1, the second
\* puts it in failedLogs, still with retryCount 1, and counts it in totalFailed;
\* no failed attempt changes totalProcessed.  With A the only record appended,
\* after the second attempt totalFailed = 1 and totalProcessed = 0.
C11_Scenario ==
    [][ \A id \in DOMAIN attempts :
          FailedAttemptOn(id) =>
             /\ RetryCountOf(id)' = 1
             /\ totalProcessed' = totalProcessed
             /\ totalFailed' = Len(failedLogs')
             /\ IF attempts[id] = 0
                THEN id \in Ids(buffer') /\ id \notin Ids(failedLogs')
                ELSE /\ id \in Ids(failedLogs') /\ id \notin Ids(buffer')
                     /\ appended = 1 => totalFailed' = 1 /\ totalProcessed' = 0 ]_vars

\* C11 witness: A is the only record appended; its batch has failed twice and A
\* is quarantined with totalFailed = 1, totalProcessed = 0.
C11_Witness ==
    /\ BATCH_SIZE = 2
    /\ maxRetries = 1
    /\ appended = 1
    /\ attempts = << 2 >>
    /\ Ids(failedLogs) = {1}
    /\ totalFailed = 1
    /\ totalProcessed = 0

\* C12: drain idempotence: a forceFlush call that finds the queue empty returns
\* in the same step, without a flush attempt and without sleeping, and leaves
\* the queue, both maps, the counters, lastProcessedAt and everything else as
\* they were.
C12_DrainIdempotence ==
    (Len(buffer) = 0 /\ force = IdleForce) => forceLoop(Store) = Store

\* C12 witness: forceFlush is callable on an empty queue while another caller's
\* flush is active and a record is quarantined, and the call changes nothing.
C12_Witness ==
    /\ flushTimer
    /\ Len(buffer) = 0
    /\ force = IdleForce
    /\ _isProcessing
    /\ Len(failedLogs) > 0
    /\ forceLoop(Store) = Store

\* C13: a processBuffer call made while a flush is active or while the queue is
\* empty returns at once and is a no-op, whoever calls it: no batch is claimed,
\* no request is left behind, and the queue, both maps, the flag, the counters
\* and lastProcessedAt stay as they were.
C13_NoOpWhenBusyOrEmpty ==
    (_isProcessing \/ Len(buffer) = 0) =>
        \A caller \in {"addLog", "timer", "forceFlush", "retryFailedLogs"} :
            processBuffer(Store, caller) = Store

\* C13 witness: with records queued, forceFlush has called processBuffer during
\* another flush, got nothing done and sleeps; a timer tick now is a no-op too.
C13_Witness ==
    /\ flushTimer
    /\ _isProcessing
    /\ Len(buffer) > 0
    /\ force.pc = "sleep"
    /\ processBuffer(Store, "timer") = Store

\* C14: the single-flight flag is set exactly while a processBuffer execution
\* is between its claim and its exit: when an execution finishes, by commit,
\* bulk-insert failure, deadline expiry or partition-check failure, the flag is
\* clear again, and the next trigger that finds records queued claims a batch.
C14_FlagClearedOnExit ==
    /\ _isProcessing <=> flights # << >>
    /\ (flights = << >> /\ Len(buffer) > 0) =>
           Len(processBuffer(Store, "timer").flights) = 1

\* C14 witness: flushes have ended by commit, by deadline expiry and by
\* bulk-insert failure, none is active and the flag is clear.
C14_Witness ==
    /\ flights = << >>
    /\ ~_isProcessing
    /\ totalProcessed > 0
    /\ late # {}
    /\ \E i \in 1..Len(buffer) : buffer[i].lastFailureReason = "insert"

C16_Original ==
    \A f \in 1..Len(flights) :
        flights[f].pc = "persist" => flights[f].partitionSql # "error"

\* C17 as stated: when a flush started by forceFlush or retryFailedLogs fails,
\* or the SQL of its partition check fails, the error reaches that caller as
\* an exception.
C17_Original ==
    [][ ( /\ flights # << >>
          /\ flights[1].caller \in {"forceFlush", "retryFailedLogs"}
          /\ \/ \E id \in DOMAIN attempts : FailedAttemptOn(id)
             \/ /\ flights' # << >>
                /\ flights[1].partitionSql = "none"
                /\ flights'[1].partitionSql = "error" )
        => flights[1].caller \in propagated' ]_vars

\* C18: timer ticks (SpecTimer, where every flush is a tick's): no error of a
\* tick's flush leaves the tick, a failed tick leaves the interval armed, and
\* the interval is cancelled by a clearBuffer step and by nothing else.
C18_TimerSurvivesFailedTicks ==
    [][ /\ propagated' = {}
        /\ (\E id \in DOMAIN attempts : FailedAttemptOn(id)) => flushTimer' = flushTimer
        /\ flushTimer' # flushTimer =>
               /\ flushTimer /\ ~flushTimer'
               /\ buffer' = << >> /\ pendingLogs' = << >>
               /\ UNCHANGED << failedLogs, flights, _isProcessing, totalProcessed,
                               totalFailed, clock >> ]_vars

\* C18 witness: four ticks in a row failed on one record, which is quarantined;
\* the interval is still armed and a fifth tick has claimed the next batch.
C18_Witness ==
    /\ flushTimer
    /\ BATCH_SIZE > MaxLogs
    /\ Len(failedLogs) > 0
    /\ Len(flights) = 1
    /\ flights[1].caller = "timer"
    /\ clock = maxRetries + 2

C20_LateResultIgnored ==
    [][ (late' # late /\ late' \subseteq late) =>
          UNCHANGED << buffer, pendingLogs, failedLogs, totalProcessed, totalFailed,
                       _isProcessing, lastProcessedAt, flushTimer, flights, force,
                       attempts, propagated >> ]_vars

\* C20 witness: a bulk insert committed after its deadline: its record is in
\* the backend table and is still held by the store for another attempt.
C20_Witness ==
    /\ late = {}
    /\ DOMAIN db \cap HeldIds # {}
    /\ totalProcessed = 0

\* C21: totalProcessed never decreases and changes only in the step in which
\* a bulk insert that is in time succeeds; that step adds exactly the size of
\* the committed batch and takes every record of the batch out of pendingLogs.
C21_TotalProcessedStep ==
    [][ /\ totalProcessed' >= totalProcessed
        /\ (totalProcessed' # totalProcessed \/ (db' # db /\ late' = late)) =>
              /\ flights # << >>
              /\ flights[1].pc = "persist"
              /\ db' = Bump(db, Ids(flights[1].logsToProcess))
              /\ totalProcessed' = totalProcessed + Len(flights[1].logsToProcess)
              /\ Ids(flights[1].logsToProcess) \cap Ids(pendingLogs') = {} ]_vars

\* C21 witness: a batch of one record, smaller than BATCH_SIZE, was committed.
C21_Witness ==
    /\ BATCH_SIZE > 1
    /\ totalProcessed = 1
    /\ DOMAIN db = {1}
    /\ pendingLogs = << >>
    /\ late = {}

\* C22: an entry leaves failedLogs only in a retryFailedLogs step: in every
\* other step (addLog, a timer tick, forceFlush, a flush succeeding or
\* failing, clearBuffer) failedLogs keeps all its entries, unchanged and in
\* order, and may only grow at its end.
C22_FailedLogsFrame ==
    [][ RetryFailedLogs \/
        ( /\ Len(failedLogs') >= Len(failedLogs)
          /\ SubSeq(failedLogs', 1, Len(failedLogs)) = failedLogs ) ]_vars

\* C22 witness: clearBuffer has run and the quarantined record is still in
\* failedLogs.
C22_Witness ==
    /\ ~flushTimer
    /\ buffer = << >>
    /\ Len(failedLogs) > 0

\* C23: a retryFailedLogs call made while a flush is active moves the
\* quarantined records to the tail of the queue and does nothing else: the
\* flush it triggers is a no-op, the batch in flight, pendingLogs, the flag and
\* the counters are untouched, the store holds the same record ids as before,
\* each once, and the moved records wait in the queue.
C23_RetryDuringFlush ==
    [][ (RetryFailedLogs /\ _isProcessing /\ Len(failedLogs) > 0) =>
          /\ UNCHANGED << flights, pendingLogs, _isProcessing, clock, lastProcessedAt,
                          totalProcessed, totalFailed, db, late, force, flushTimer >>
          /\ failedLogs' = << >>
          /\ Len(buffer') = Len(buffer) + Len(failedLogs)
          /\ SubSeq(buffer', 1, Len(buffer)) = buffer
          /\ Proj(SubSeq(buffer', Len(buffer) + 1, Len(buffer'))) =
                [i \in 1..Len(failedLogs) |-> << failedLogs[i].logId, 0 >>]
          /\ HeldIds' = HeldIds
          /\ Cardinality(HeldIds') = Len(Held') ]_vars

\* C23 witness: while the flush that claimed record 2 alone is still active,
\* record 1 has come back from quarantine and waits in the queue.
C23_Witness ==
    /\ Len(flights) = 1
    /\ Ids(flights[1].logsToProcess) = {2}
    /\ failedLogs = << >>
    /\ Len(buffer) = 1
    /\ buffer[1].logId = 1
    /\ buffer[1].retryCount = 0
    /\ buffer[1].batchId # 0

ShutdownRank(pc) ==
    CASE pc = "running" -> 0
      [] pc = "wait" -> 1
      [] pc \in {"force", "pause"} -> 2
      [] OTHER -> 3

C25_ShutdownOrder ==
    /\ [](/\ shutdown.pc = "exited" => buffer = << >> /\ pendingLogs = << >> /\ ~flushTimer
          /\ force.pc # "idle" /\ ~Serving => shutdown.pc \in {"force", "killed"}
          /\ shutdown.pc = "wait" => shutdown.waitCount < maxWaitCount /\ shutdown.flushAttempts = 0
          /\ shutdown.pc = "force" => shutdown.flushAttempts < maxFlushAttempts)
    /\ [][ /\ ShutdownRank(shutdown'.pc) >= ShutdownRank(shutdown.pc)
           /\ Exited => UNCHANGED vars
           /\ (flushTimer /\ ~flushTimer') => shutdown'.pc = "exited"
           /\ (~Serving /\ force.pc = "idle" /\ force'.pc # "idle") => shutdown'.pc = "force"
           /\ (shutdown.pc # "exited" /\ shutdown'.pc = "exited") =>
                 /\ (_isProcessing /\ shutdown.pc \in {"running", "wait"}) =>
                        shutdown.waitCount + 1 = maxWaitCount
                 /\ \A id \in Ids(buffer) : id \notin DOMAIN db' \cup Ids(failedLogs') ]_vars

\* C25 witness: the shutdown completed after 30 waits and 5 forced flushes
\* behind a flush that never settled; record 2, still queued, is held nowhere
\* and was never persisted.
C25_Witness ==
    /\ shutdown = [pc |-> "exited", waitCount |-> maxWaitCount,
                   flushAttempts |-> maxFlushAttempts]
    /\ nextId = 3
    /\ 2 \notin DOMAIN db \cup Ids(buffer) \cup Ids(failedLogs) \cup Ids(pendingLogs)

\* C26: an addLog call made while a flush is in progress only appends its
\* record: it claims nothing, starts no processBuffer execution to wait for
\* and leaves the flush in progress as it is, also when the queue then holds
\* BATCH_SIZE records or more (SpecScenario).
C26_AddLogDuringFlush ==
    [][ (AddLog /\ _isProcessing) =>
          /\ Len(buffer') = Len(buffer) + 1
          /\ SubSeq(buffer', 1, Len(buffer)) = buffer
          /\ buffer'[Len(buffer')].logId = nextId
          /\ UNCHANGED << flights, pendingLogs, _isProcessing, clock, lastProcessedAt,
                          failedLogs, totalProcessed, totalFailed, db, force >> ]_vars

\* C26 witness: record 1 is in flight and records 2 and 3, appended during
\* that flush, wait in a queue of BATCH_SIZE records.
C26_Witness ==
    /\ _isProcessing
    /\ Ids(Claimed(flights)) = {1}
    /\ Len(buffer) >= BATCH_SIZE
    /\ Ids(buffer) = {2, 3}

\* C27: a claim takes exactly the first min(length, BATCH_SIZE) records of the
\* queue, in queue order, and leaves the rest in order; the new execution is
\* then before its partition check.  While an execution is suspended no record
\* of its batch is in the queue, and getStoredLogs returns none of them
\* whatever its filters (SpecScenario).
IdSeq(seq) == [i \in 1..Len(seq) |-> seq[i].logId]

C27_ClaimIsPrefix ==
    /\ [](\A passes \in SUBSET (1..(nextId - 1)) :
            Ids(getStoredLogs(Store, passes)) \cap Ids(Claimed(flights)) = {})
    /\ [](Ids(buffer) \cap Ids(Claimed(flights)) = {})
    /\ [][ clock' = clock + 1 =>
             \E f \in 1..Len(flights') :
                LET new == flights'[f]
                    queue == new.logsToProcess \o buffer'
                IN /\ new.batchId = clock'
                   /\ new.pc = "partition"
                   /\ Len(new.logsToProcess) = Min(Len(queue), BATCH_SIZE)
                   /\ Len(queue) >= Len(buffer)
                   /\ SubSeq(IdSeq(queue), 1, Len(buffer)) = IdSeq(buffer)
                   /\ TimerTick => queue = buffer ]_vars

\* C27 witness: the queue held records 2, 3, 1 (record 1 rolled back to the
\* tail); the claim took 2 and 3 and left 1.
C27_Witness ==
    /\ Len(flights) = 1
    /\ IdSeq(flights[1].logsToProcess) = << 2, 3 >>
    /\ IdSeq(buffer) = << 1 >>
    /\ flights[1].pc = "partition"

\* C28 (as stated): lastProcessedAt changes only in the commit step of a
\* successful flush, so a flush that fails leaves it unchanged.
C28_Original ==
    [][ lastProcessedAt' # lastProcessedAt => totalProcessed' > totalProcessed ]_vars

\* C28 (amended): lastProcessedAt is stamped by the claim step of every flush,
\* before the partition check, and by no other step: neither the commit nor
\* the rollback changes it, so a failed flush has stamped it like a successful
\* one.
C28_RecordedAtClaim ==
    [][ /\ lastProcessedAt' # lastProcessedAt <=> clock' = clock + 1
        /\ clock' = clock + 1 =>
              /\ lastProcessedAt' = clock'
              /\ \E f \in 1..Len(flights') :
                     flights'[f].batchId = clock' /\ flights'[f].pc = "partition"
        /\ (clock' = clock /\ Len(flights') < Len(flights)) =>
              lastProcessedAt' = lastProcessedAt ]_vars

\* C28 witness: the only flush so far failed and rolled its record back, and
\* lastProcessedAt carries the time of its claim.
C28_Witness ==
    /\ clock = 1
    /\ lastProcessedAt = 1
    /\ flights = << >>
    /\ totalProcessed = 0
    /\ db = << >>
    /\ Len(buffer) = 1
    /\ buffer[1].retryCount = 1

\* C29: totalFailed counts the moves into failedLogs.  It starts at 0 with an
\* empty map, every step adds to it exactly the number of records that enter
\* the map in that step, a flush that fails adds the number of records of its
\* batch that had used up their retries, it never decreases, and the map never
\* holds more entries than it (SpecRetry).
C29_TotalFailedCountsMoves ==
    /\ (totalFailed = 0 /\ failedLogs = << >>)
    /\ [](Len(failedLogs) <= totalFailed)
    /\ [][ /\ totalFailed' >= totalFailed
           /\ totalFailed' - totalFailed =
                 Cardinality(Ids(failedLogs') \ Ids(failedLogs))
           /\ \A f \in 1..Len(flights) :
                 ( /\ \A g \in 1..Len(flights') : flights'[g].batchId # flights[f].batchId
                   /\ totalProcessed' = totalProcessed ) =>
                 LET batch == flights[f].logsToProcess
                     spent == {i \in 1..Len(batch) : batch[i].retryCount >= maxRetries}
                 IN /\ totalFailed' = totalFailed + Cardinality(spent)
                    /\ Ids(failedLogs') \ Ids(failedLogs) = {batch[i].logId : i \in spent} ]_vars

\* C29 witness: the only record was quarantined, retried by the operator and
\* quarantined again: two moves, one entry.
C29_Witness ==
    /\ nextId = 2
    /\ totalFailed = 2
    /\ Ids(failedLogs) = {1}
    /\ Len(failedLogs) = 1

\* C30: every record in the queue, in the in-flight map, in a claimed batch or
\* in failedLogs has 0 <= retryCount <= maxRetries, and the record an addLog
\* call creates has a fresh logId and retryCount 0 whatever the producer sent.
C30_RetryCountRange ==
    /\ [](\A log \in Range(buffer) \cup Range(pendingLogs) \cup Range(failedLogs)
                    \cup Range(Claimed(flights)) :
            log.retryCount \in 0..maxRetries)
    /\ [][ AddLog =>
             \E log \in Range(buffer') \cup Range(Claimed(flights')) :
                /\ log.logId = nextId
                /\ log.retryCount = 0
                /\ nextId \notin HeldIds ]_vars

\* C30 witness: record 1 is quarantined with retryCount = maxRetries and
\* record 2, just appended, waits with retryCount 0.
C30_Witness ==
    /\ Len(failedLogs) = 1
    /\ failedLogs[1].logId = 1
    /\ failedLogs[1].retryCount = maxRetries
    /\ Len(buffer) = 1
    /\ buffer[1].logId = 2
    /\ buffer[1].retryCount = 0

\* C31: with an empty permanent-failure map retryFailedLogs returns the store
\* as it found it: queue, in-flight map, failure map, counters, flag and
\* suspended executions are the same and no batch is claimed, also when the
\* queue is non-empty and no flush is in progress.
C31_RetryNothingIsNoOp ==
    Len(failedLogs) = 0 => retryFailedLogs(Store) = Store

\* C31 witness: nothing is quarantined, a record waits in the queue and no
\* flush is in progress, so a call of processBuffer would claim it.
C31_Witness ==
    /\ Len(failedLogs) = 0
    /\ Len(buffer) > 0
    /\ ~_isProcessing
    /\ flushTimer
    /\ processBuffer(Store, "retryFailedLogs") # Store

\* C32 (as stated): a record re-enqueued by retryFailedLogs carries no failure
\* field of its earlier attempts: finalFailureReason/finalFailureAt and
\* lastFailureReason/lastFailureAt are cleared along with retryCount.
C32_Original ==
    [][ (RetryFailedLogs /\ Len(failedLogs) > 0) =>
          \A log \in Range(buffer') \cup Range(Claimed(flights')) :
             log.logId \in Ids(failedLogs) =>
                /\ log.retryCount = 0
                /\ log.finalFailureReason = "none"
                /\ log.lastFailureReason = "none" ]_vars

\* C33: until clearBuffer is called no record is dropped: the number of
\* records appended equals the queue length plus the size of the batch in
\* flight plus totalProcessed plus the size of the permanent-failure map, in
\* every state reached by addLog, timer ticks, forceFlush, retryFailedLogs and
\* flushes that succeed, fail or time out.
C33_Conservation ==
    flushTimer =>
        appended = Len(buffer) + Len(Claimed(flights)) + totalProcessed + Len(failedLogs)

\* C33 witness: of two records appended one was persisted and the other was
\* quarantined after its retries.
C33_Witness ==
    /\ flushTimer
    /\ appended = 2
    /\ totalProcessed = 1
    /\ Len(failedLogs) = 1
    /\ buffer = << >>
    /\ flights = << >>

\* C34: pendingLogs is non-empty only while a flush is active: with the
\* single-flight flag clear it is empty, and with the flag set its keys are
\* ids of the batch claimed by the active flush.
C34_PendingOnlyDuringFlush ==
    /\ ~_isProcessing => pendingLogs = << >>
    /\ _isProcessing => Ids(pendingLogs) \subseteq Ids(Claimed(flights))

\* C34 witness: a flush of two records is active and both are in pendingLogs,
\* tagged with its batchId.
C34_Witness ==
    /\ _isProcessing
    /\ Len(flights) = 1
    /\ Len(pendingLogs) = 2
    /\ Ids(pendingLogs) = Ids(flights[1].logsToProcess)
    /\ \A i \in 1..2 : pendingLogs[i].batchId = flights[1].batchId

\* C35: batches are strictly sequential.  A suspended execution always holds
\* the batch claimed last; a claim happens only when no other execution is
\* suspended and the in-flight map holds no entry of an earlier batch; so each
\* batch has its commit or rollback applied before the next claim and batches
\* complete in the order of their claims.
C35_BatchesSequential ==
    /\ [](\A f \in 1..Len(flights) : flights[f].batchId = clock)
    /\ [][ /\ clock' = clock + 1 =>
                /\ Len(flights') = 1
                /\ flights'[1].batchId = clock'
                /\ Ids(pendingLogs') = Ids(flights'[1].logsToProcess)
                /\ \A i \in 1..Len(pendingLogs') : pendingLogs'[i].batchId = clock'
           /\ clock' \in {clock, clock + 1} ]_vars

\* C35 witness: batch 1 was committed, batch 2 is the only one in flight.
C35_Witness ==
    /\ clock = 2
    /\ totalProcessed = 1
    /\ DOMAIN db = {1}
    /\ Len(flights) = 1
    /\ flights[1].batchId = 2
    /\ Ids(flights[1].logsToProcess) = {2}

\* C36 (as stated): while timers fire, every flush that claimed a batch
\* returns to Idle, whether or not the backend answers its partition check or
\* its bulk insert (SpecSilent).
C36_Original == _isProcessing ~> ~_isProcessing

IdleOverThreshold == ~_isProcessing /\ Len(buffer) >= BATCH_SIZE

Excess == IF appended > maxAttempts * BATCH_SIZE
          THEN appended - maxAttempts * BATCH_SIZE ELSE 0

C39_ForceFlushDrains ==
    (force.pc = "idle" /\ clock > 0) =>
        /\ Len(buffer) = Excess
        /\ IdSeq(buffer) = [i \in 1..Excess |-> appended - Excess + i]
        /\ totalProcessed = appended - Excess
        /\ DOMAIN db = 1..(appended - Excess)
        /\ clock = Min(maxAttempts, (appended + BATCH_SIZE - 1) \div BATCH_SIZE)
        /\ ~_isProcessing

\* C39 witness: 12 records with BATCH_SIZE 1: the call has returned after its
\* 10 attempts with records 11 and 12 still queued.
C39_Witness ==
    /\ force.pc = "idle"
    /\ clock = maxAttempts
    /\ BATCH_SIZE = 1
    /\ appended = maxAttempts + 2
    /\ IdSeq(buffer) = << 11, 12 >>
    /\ totalProcessed = maxAttempts

\* C40: liveness under the time trigger (SpecLive).  Every record that is in
\* the queue is eventually out of the queue and of every batch in flight,
\* counted in totalProcessed or held in failedLogs, and stays so; no record
\* is the target of more than maxRetries + 1 failed attempts.
Settled(id) ==
    /\ id < nextId
    /\ id \notin Ids(buffer) \cup Ids(Claimed(flights))

C40_EveryRecordSettles ==
    /\ \A id \in 1..MaxLogs : (id \in Ids(buffer)) ~> Settled(id)
    /\ [][\A id \in 1..MaxLogs : Settled(id) => Settled(id)']_vars
    /\ [](\A id \in 1..MaxLogs :
            /\ Settled(id) => (id \in DOMAIN db \/ id \in Ids(failedLogs))
            /\ id \in DOMAIN attempts => attempts[id] <= maxRetries + 1)

\* C40 witness: both ways out: record 1 was persisted by a successful batch,
\* record 2 was quarantined after maxRetries + 1 failed attempts.
C40_Witness ==
    /\ Settled(1) /\ Settled(2)
    /\ 1 \in DOMAIN db
    /\ 2 \in Ids(failedLogs)
    /\ 2 \notin DOMAIN db
    /\ totalProcessed = 1

====
